---- MODULE Spec2Model ----
(***************************************************************************)
(* Model of scripts/generate_partial_spec.py: the change-classification    *)
(* and partial-spec reconstruction run (main -> build_new_spec ->          *)
(* build_required_components -> save).                                     *)
(*                                                                         *)
(* Strings are sequences of atoms.  The separator characters the code      *)
(* splits on ("@", ".", "/") are atoms of their own, every other atom is a *)
(* run of ordinary characters, so split / startswith / endswith act on     *)
(* the model's strings exactly as they act on the Python strings.          *)
(***************************************************************************)
EXTENDS Integers, Sequences, FiniteSets, TLC

\* ------------------------------------------------------------------------
\* String primitives (Python str methods used by the script)
\* ------------------------------------------------------------------------

\* str.startswith
StartsWith(s, pre) ==
    Len(s) >= Len(pre) /\ SubSeq(s, 1, Len(pre)) = pre

\* str.endswith
EndsWith(s, suf) ==
    Len(s) >= Len(suf) /\ SubSeq(s, Len(s) - Len(suf) + 1, Len(s)) = suf

\* index of the first occurrence of the atom sep in s, 0 when there is none
FirstIndex(s, sep) ==
    IF \E i \in 1..Len(s) : s[i] = sep
    THEN CHOOSE i \in 1..Len(s) : s[i] = sep /\ \A j \in 1..(i - 1) : s[j] # sep
    ELSE 0

\* the positions of the separator atom sep in s
SepPositions(s, sep) == { i \in 1..Len(s) : s[i] = sep }

\* position of the k-th separator; 0 before the first, Len(s)+1 after the last
SepAt(s, sep, k) ==
    LET P == SepPositions(s, sep) IN
    IF k = 0 THEN 0
    ELSE IF k > Cardinality(P) THEN Len(s) + 1
    ELSE CHOOSE i \in P : Cardinality({ j \in P : j < i }) = k - 1

\* str.split(sep): every piece, at least one
Split(s, sep) ==
    [k \in 1..(Cardinality(SepPositions(s, sep)) + 1) |->
       SubSeq(s, SepAt(s, sep, k - 1) + 1, SepAt(s, sep, k) - 1)]

\* str.split(sep, 1): at most one cut, at the first separator
Split1(s, sep) ==
    LET i == FirstIndex(s, sep) IN
    IF i = 0 THEN << s >>
    ELSE << SubSeq(s, 1, i - 1), SubSeq(s, i + 1, Len(s)) >>

UpperAtom(a) ==
    CASE a = "get" -> "GET"
      [] a = "post" -> "POST"
      [] a = "parameters" -> "PARAMETERS"
      [] a = "summary" -> "SUMMARY"
      [] a = "path_only" -> "PATH_ONLY"
      [] OTHER -> a

LowerAtom(a) ==
    CASE a = "GET" -> "get"
      [] a = "POST" -> "post"
      [] a = "PARAMETERS" -> "parameters"
      [] a = "SUMMARY" -> "summary"
      [] a = "PATH_ONLY" -> "path_only"
      [] OTHER -> a

\* str.upper / str.lower
Upper(s) == [i \in 1..Len(s) |-> UpperAtom(s[i])]
Lower(s) == [i \in 1..Len(s) |-> LowerAtom(s[i])]

\* ------------------------------------------------------------------------
\* Operation identity
\* ------------------------------------------------------------------------

\* the method names load_baseline_operations and detect_manual_changes accept
OpMethods ==
    { <<"get">>, <<"put">>, <<"post">>, <<"delete">>, <<"patch">>,
      <<"options">>, <<"head">>, <<"trace">> }

\* f"{method.upper()}@{path}"
OpKey(method, path) == Upper(method) \o <<"@">> \o path

\* f"PATH_ONLY@{path}"
PathOnlyKey(path) == <<"PATH_ONLY", "@">> \o path

\* the value None of get_key_from_loc (no key): the empty string is falsy too
NoKey == << >>

\* get_key_from_loc
get_key_from_loc(loc_str) ==
    IF loc_str # << >> /\ StartsWith(loc_str, <<"paths", ".">>)
    THEN LET tokens == Split(loc_str, ".") IN
         IF Len(tokens) >= 3 THEN Upper(tokens[3]) \o <<"@">> \o tokens[2]
         ELSE IF Len(tokens) = 2 THEN <<"PATH_ONLY", "@">> \o tokens[2]
         ELSE NoKey
    ELSE NoKey

\* ------------------------------------------------------------------------
\* Documents
\* ------------------------------------------------------------------------
\* A specification document is [hasPaths, paths, hasComponents, components]:
\*   paths       path string -> path item; a path item maps its keys (method
\*               names, "parameters") to sub-trees
\*   components  category string -> (component name -> definition)
\* A sub-tree is abstracted to what the script reads of it:
\*   desc       its description text
\*   ord        the order in which its keys were written (json.dumps with
\*              sort_keys=True does not depend on it)
\*   responses  whether it has a non-empty "responses" field
\*   refs       the "$ref" strings that occur anywhere inside it

EmptyMap == [x \in {} |-> {}]

\* dict[k] = v
Put(f, k, v) == [x \in (DOMAIN f) \cup {k} |-> IF x = k THEN v ELSE f[x]]

\* the {} load_spec_file returns for a missing or unparsable file
EmptyDoc ==
    [hasPaths |-> FALSE, paths |-> EmptyMap,
     hasComponents |-> FALSE, components |-> EmptyMap]

\* json.dumps(op, sort_keys=True): the canonical text of a sub-tree
json_dumps_sorted(op) ==
    [desc |-> op.desc, responses |-> op.responses, refs |-> op.refs]

\* copy.deepcopy
deepcopy(v) == v

\* load_baseline_operations: the Legacy Set of a baseline document
load_baseline_operations(baseline_spec) ==
    IF baseline_spec # EmptyDoc /\ baseline_spec.hasPaths
    THEN { OpKey(pm[2], pm[1]) : pm \in
             { pm \in UNION { {p} \X (DOMAIN baseline_spec.paths[p]) :
                                p \in DOMAIN baseline_spec.paths } :
                 Lower(pm[2]) \in OpMethods } }
    ELSE {}

\* detect_manual_changes without its second check: only operations the source
\* lacks are reported
detect_new_only(source_spec, dest_spec, affected_ops) ==
    affected_ops \cup
    { OpKey(pm[2], pm[1]) : pm \in
        { pm \in UNION { {p} \X (DOMAIN dest_spec.paths[p]) : p \in DOMAIN dest_spec.paths } :
            /\ Lower(pm[2]) \in OpMethods
            /\ \/ pm[1] \notin DOMAIN source_spec.paths
               \/ pm[2] \notin DOMAIN source_spec.paths[pm[1]] } }

\* detect_manual_changes: affected_ops after the deep comparison
detect_manual_changes(source_spec, dest_spec, affected_ops) ==
    LET dest_paths == dest_spec.paths
        source_paths == source_spec.paths
        changed(p, m) ==
            \/ p \notin DOMAIN source_paths
            \/ m \notin DOMAIN source_paths[p]
            \/ json_dumps_sorted(dest_paths[p][m])
                 # json_dumps_sorted(source_paths[p][m])
    IN affected_ops \cup
       { OpKey(pm[2], pm[1]) : pm \in
           { pm \in UNION { {p} \X (DOMAIN dest_paths[p]) : p \in DOMAIN dest_paths } :
               Lower(pm[2]) \in OpMethods /\ changed(pm[1], pm[2]) } }

\* build_new_spec, lines 427-433: the diff report flattened to one item list
FlattenDiff(diff) ==
    IF diff.breaking # << >> THEN diff.breaking ELSE diff.differences

\* the location looked up on the source side first
ItemLocation_source_first(it) ==
    LET s == IF it.src # << >> THEN it.src[1] ELSE << >>
    IN IF s = << >> /\ it.dst # << >> THEN it.dst[1] ELSE s

\* build_new_spec, lines 436-440: the location string of one diff item
\* (an entity detail is modelled by its location; << >> is "no location")
ItemLocation(it) ==
    LET d == IF it.dst # << >> THEN it.dst[1] ELSE << >>
    IN IF d = << >> /\ it.src # << >> THEN it.src[1] ELSE d

\* build_new_spec, lines 435-444: the keys the diff report contributes
DiffKeys(items) ==
    { k \in { get_key_from_loc(ItemLocation(items[i])) : i \in
                { j \in 1..Len(items) : ItemLocation(items[j]) # << >> } } :
        k # NoKey }

\* copy_operation_from_dest looking the method up as written in the key
copy_operation_keep_case(ns, dest_spec, op_key) ==
    IF op_key = << >> \/ FirstIndex(op_key, "@") = 0 THEN ns
    ELSE
      LET parts == Split1(op_key, "@")
          method == parts[1]
          path == parts[2]
          fresh == path \notin DOMAIN ns.paths
          item0 == IF fresh THEN EmptyMap ELSE ns.paths[path]
          item1 == IF path \in DOMAIN dest_spec.paths /\ method \in DOMAIN dest_spec.paths[path]
                   THEN Put(item0, method, dest_spec.paths[path][method])
                   ELSE item0
      IN [ns EXCEPT !.paths = Put(ns.paths, path, item1),
                    !.paths_order = IF fresh THEN Append(@, path) ELSE @]

\* copy_operation_from_dest, applied to the output document ns
copy_operation_from_dest(ns, dest_spec, op_key) ==
    IF op_key = << >> \/ FirstIndex(op_key, "@") = 0 THEN ns
    ELSE
      LET parts == Split1(op_key, "@")
          method == Lower(parts[1])
          path == parts[2]
          fresh == path \notin DOMAIN ns.paths
          item0 == IF fresh THEN EmptyMap ELSE ns.paths[path]
          dest_paths == dest_spec.paths
          item1 == IF path \in DOMAIN dest_paths /\ method \in DOMAIN dest_paths[path]
                   THEN Put(item0, method, deepcopy(dest_paths[path][method]))
                   ELSE item0
      IN [ns EXCEPT !.paths = Put(ns.paths, path, item1),
                    !.paths_order = IF fresh THEN Append(@, path) ELSE @]

\* build_new_spec, lines 453-454
PathOnlyOf(key) == Split(key, "@")[2]

\* the legacy test written with startswith
IsLegacyPath_startswith(legacy, path_only) ==
    \E op \in legacy : StartsWith(op, <<"@">> \o path_only)

\* build_new_spec, line 454
IsLegacyPath(legacy, path_only) ==
    \E op \in legacy : EndsWith(op, <<"@">> \o path_only)

\* the path item copied only when the output has no item for the path yet
copy_path_keep_existing(ns, dest_spec, path_only) ==
    IF path_only \in DOMAIN dest_spec.paths /\ path_only \notin DOMAIN ns.paths
    THEN [ns EXCEPT !.paths = Put(ns.paths, path_only, deepcopy(dest_spec.paths[path_only])),
                    !.paths_order = Append(@, path_only)]
    ELSE ns

\* build_new_spec, lines 459-460: the whole path item copied from the head spec
copy_path_from_dest(ns, dest_spec, path_only) ==
    IF path_only \in DOMAIN dest_spec.paths
    THEN [ns EXCEPT !.paths = Put(ns.paths, path_only, deepcopy(dest_spec.paths[path_only])),
                    !.paths_order = IF path_only \in DOMAIN ns.paths THEN @
                                    ELSE Append(@, path_only)]
    ELSE ns

\* the components of a document, as << category, name >>
ComponentsOf(doc) ==
    UNION { {c} \X (DOMAIN doc.components[c]) : c \in DOMAIN doc.components }

\* find_all_refs that finds no "$ref" key
find_all_refs_none(obj, found_refs_set) == found_refs_set

\* find_all_refs on one sub-tree: found_refs_set with its "$ref" strings added
find_all_refs(obj, found_refs_set) == found_refs_set \cup obj.refs

\* find_all_refs over the output document's paths, into an empty set
find_all_refs_paths(paths) ==
    UNION { find_all_refs(paths[pk[1]][pk[2]], {}) : pk \in
              UNION { {p} \X (DOMAIN paths[p]) : p \in DOMAIN paths } }

\* ------------------------------------------------------------------------
\* Reference strings
\* ------------------------------------------------------------------------

\* build_required_components, lines 494-500: the (category, name) a reference
\* string names, << >> when the string is skipped as malformed
ParseRef(ref_str) ==
    IF ~ StartsWith(ref_str, <<"#", "/", "components", "/">>) THEN << >>
    ELSE LET parts == Split(ref_str, "/") IN
         IF Len(parts) < 4 THEN << >> ELSE << parts[3], parts[4] >>

\* build_required_components, lines 502-507: the reference names a component
\* of the base specification
InBase(base_spec, cn) ==
    /\ cn # << >>
    /\ cn[1] \in DOMAIN base_spec.components
    /\ cn[2] \in DOMAIN base_spec.components[cn[1]]

\* ------------------------------------------------------------------------
\* Bounds and input universes
\* ------------------------------------------------------------------------
MaxEntries == 2      \* entries (path, key) of a head specification
MaxItems == 1        \* items of a diff report
MaxLegacy == 1       \* operations of the baseline

P_u == <<"/u">>
P_me == <<"/u", "@", "me">>
PathStrings == {P_u, P_me}
M_get == <<"get">>
M_post == <<"post">>
K_parameters == <<"parameters">>

RefA == <<"#", "/", "components", "/", "schemas", "/", "A">>
RefB == <<"#", "/", "components", "/", "schemas", "/", "B">>
RefAprop == <<"#", "/", "components", "/", "schemas", "/", "A", "/", "properties">>
RefDangling == <<"#", "/", "components", "/", "schemas", "/", "Gone">>
RefNoCategory == <<"#", "/", "components", "/", "responses", "/", "A">>
RefShort == <<"#", "/", "components", "/", "schemas">>
RefForeign == <<"#", "/", "definitions", "/", "A">>

Tree(d, o, r, refs) == [desc |-> d, ord |-> o, responses |-> r, refs |-> refs]

\* all sets of at most n elements of S
RECURSIVE SubsetsUpTo(_, _)
SubsetsUpTo(S, n) ==
    IF n = 0 THEN { {} }
    ELSE LET prev == SubsetsUpTo(S, n - 1)
         IN prev \cup { s \cup {e} : s \in prev, e \in S }

\* the paths mapping made of a set of entries << <<path, key>>, sub-tree >>
PathsOf(E) ==
    [p \in { e[1][1] : e \in E } |->
       [k \in { e[1][2] : e \in { x \in E : x[1][1] = p } } |->
          (CHOOSE e \in E : e[1] = <<p, k>>)[2]]]

\* the path mappings with at most n entries drawn from addrs \X values
PathMaps(addrs, values, n) ==
    { PathsOf(E) : E \in { F \in SubsetsUpTo(addrs \X values, n) :
                             \A x, y \in F : (x[1] = y[1]) => (x = y) } }

Doc(paths, hasComps, comps) ==
    [hasPaths |-> TRUE, paths |-> paths,
     hasComponents |-> hasComps, components |-> IF hasComps THEN comps ELSE EmptyMap]

\* a components dictionary with the single category "schemas"
Schemas(defs) == [c \in { <<"schemas">> } |-> defs]
Def(refs) == [refs |-> refs]
N_A == <<"A">>
N_B == <<"B">>

\* diff.json as main finds it: missing, the plain-text "no changes" sentinel,
\* or a JSON object with its breakingDifferences and differences lists
DiffFile(kind, breaking, differences) ==
    [kind |-> kind, breaking |-> breaking, differences |-> differences]

\* the item lists of at most n items taken from the sequence pool in its order
RECURSIVE ItemLists(_, _)
ItemLists(pool, n) ==
    IF n = 0 \/ pool = << >> THEN { << >> }
    ELSE ItemLists(Tail(pool), n)
         \cup { << Head(pool) >> \o l : l \in ItemLists(Tail(pool), n - 1) }

\* every way to file a list under breakingDifferences and differences
Filings(l) ==
    { << SubSeq(l, 1, k), SubSeq(l, k + 1, Len(l)) >> : k \in 0..Len(l) }

DiffFiles(pool) ==
    { DiffFile("missing", << >>, << >>), DiffFile("sentinel", << >>, << >>) }
    \cup { DiffFile("json", bd[1], bd[2]) :
             bd \in UNION { Filings(l) : l \in ItemLists(pool, MaxItems) } }

DstItem(loc) == [dst |-> << loc >>, src |-> << >>]
SrcItem(loc) == [dst |-> << >>, src |-> << loc >>]
Loc(path) == <<"paths", ".">> \o path
LocIn(path, rest) == <<"paths", ".">> \o path \o <<".">> \o rest

\* ---- inputs of the governance runs ----
GovAddrs == { <<P_u, M_get>>, <<P_u, M_post>>, <<P_me, M_get>> }
GovTrees == { Tree("d1", 1, TRUE, {RefA}), Tree("d2", 1, FALSE, {RefA}) }
GovSourceTrees == GovTrees \cup { Tree("d1", 2, TRUE, {RefA}) }
GovComponents == Schemas([n \in {N_A} |-> Def({RefA})])
GovItems ==
    << DstItem(LocIn(P_u, <<"get">>)),
       DstItem(Loc(P_u)),
       DstItem(Loc(P_me)),
       SrcItem(LocIn(P_u, <<"post", ".", "summary">>)),
       DstItem(<<"components", ".", "schemas", ".", "A">>) >>
GovDiffs == DiffFiles(GovItems)
GovBaselines ==
    { EmptyDoc } \cup
    { Doc(pm, FALSE, EmptyMap) :
        pm \in PathMaps(GovAddrs, { Tree("d1", 1, TRUE, {}) }, MaxLegacy) \ { EmptyMap } }
GovDests ==
    { EmptyDoc }
    \cup { Doc(pm, FALSE, EmptyMap) : pm \in PathMaps(GovAddrs, GovTrees, 1) }
    \cup { Doc(pm, TRUE, GovComponents) : pm \in PathMaps(GovAddrs, GovTrees, MaxEntries) }
GovSources(dest) ==
    { EmptyDoc } \cup
    { Doc(PathsOf({ <<a, t>> }), FALSE, EmptyMap) :
        a \in { pk \in GovAddrs : pk[1] \in DOMAIN dest.paths
                                   /\ pk[2] \in DOMAIN dest.paths[pk[1]] },
        t \in GovSourceTrees }

\* ---- inputs of the reference-resolution runs ----
RefsAddrs == {P_u} \X {M_get, M_post, K_parameters}
RefSets ==
    { {}, {RefA, RefAprop}, {RefB, RefDangling},
      {RefForeign, RefShort, RefNoCategory} }
RefsTrees == { Tree("d1", 1, TRUE, r) : r \in RefSets }
RefsComponents ==
    { Schemas([n \in {N_A} |-> Def(ra)]) : ra \in { {}, {RefB} } }
    \cup { Schemas([n \in {N_A, N_B} |-> IF n = N_A THEN Def(ra) ELSE Def(rb)]) :
             ra \in { {RefA}, {RefB} }, rb \in { {RefA}, {RefDangling} } }
RefsItems == << DstItem(Loc(P_u)), DstItem(LocIn(P_u, <<"parameters">>)) >>
RefsDiffs ==
    { DiffFile("missing", << >>, << >>), DiffFile("json", << >>, << >>) }
    \cup { DiffFile("json", << >>, << RefsItems[i] >>) : i \in DOMAIN RefsItems }
RefsBaselines ==
    { EmptyDoc, Doc(PathsOf({ << <<P_u, M_get>>, Tree("d1", 1, TRUE, {}) >> }), FALSE, EmptyMap) }
RefsDests ==
    { EmptyDoc }
    \cup { Doc(pm, FALSE, EmptyMap) : pm \in PathMaps(RefsAddrs, RefsTrees, 1) }
    \cup { Doc(pm, TRUE, c) :
             pm \in PathMaps(RefsAddrs, RefsTrees, MaxEntries), c \in RefsComponents }

\* ---- inputs of the diff-report runs ----
MaxReport == 2       \* items of a diff report in the diff-report runs
BothItem(dloc, sloc) == [dst |-> << dloc >>, src |-> << sloc >>]
ReportAddrs == {P_u} \X {M_get, M_post}
ReportItems ==
    << [dst |-> << >>, src |-> << >>],
       BothItem(LocIn(P_u, <<"get">>), LocIn(P_u, <<"post">>)),
       SrcItem(LocIn(P_u, <<"post", ".", "summary">>)),
       BothItem(<< >>, Loc(P_u)),
       BothItem(<<"components", ".", "schemas", ".", "A">>, LocIn(P_u, <<"get">>)),
       DstItem(<<"paths">>) >>
ReportDiffs ==
    { DiffFile("missing", << >>, << >>) }
    \cup { DiffFile("json", bd[1], bd[2]) :
             bd \in UNION { Filings(l) : l \in ItemLists(ReportItems, MaxReport) } }
ReportBaselines ==
    { EmptyDoc, Doc(PathsOf({ << <<P_u, M_get>>, Tree("d1", 1, TRUE, {}) >> }), FALSE, EmptyMap) }
ReportDests ==
    { EmptyDoc }
    \cup { Doc(pm, FALSE, EmptyMap) :
             pm \in PathMaps({ <<P_u, M_get>> }, { Tree("d1", 1, TRUE, {RefA}) }, 1) }
    \cup { Doc(pm, TRUE, GovComponents) :
             pm \in PathMaps(ReportAddrs, { Tree("d1", 1, TRUE, {RefA}) }, 2) }

\* ---- inputs of the processing-order runs ----
OrderItems ==
    << DstItem(Loc(P_u)),
       SrcItem(LocIn(P_u, <<"post", ".", "summary">>)),
       DstItem(Loc(P_me)) >>
OrderDiffs ==
    { DiffFile("missing", << >>, << >>) }
    \cup { DiffFile("json", << >>, l) : l \in ItemLists(OrderItems, Len(OrderItems)) }

\* ------------------------------------------------------------------------
\* State
\* ------------------------------------------------------------------------
VARIABLES
    diff_file,        \* diff.json
    baseline_spec,    \* the baseline specification file
    dest_spec,        \* swagger_head
    source_spec,      \* swagger_main
    pc,               \* position of the run in main
    diff_data,        \* main: the parsed diff report
    legacy_ops,       \* main: the Legacy Set
    affected_ops,     \* build_new_spec: the affected-key set
    pending,          \* build_new_spec: keys the for loop has not reached yet
    new_spec,         \* the Output Document
    refs_to_scan_queue,
    scanned_refs,
    decisions,        \* history: << key, "include" | "ignore" >> per key handled
    copy_log          \* history: every deepcopy of a component, in order

vars == << diff_file, baseline_spec, dest_spec, source_spec, pc, diff_data,
           legacy_ops, affected_ops, pending, new_spec, refs_to_scan_queue,
           scanned_refs, decisions, copy_log >>

inputs == << diff_file, baseline_spec, dest_spec, source_spec >>

\* the Output Document before build_new_spec has run
NoSpec ==
    [paths |-> EmptyMap, paths_order |-> << >>,
     has_components |-> FALSE, components |-> EmptyMap, components_order |-> << >>]

EmptyDiff == [breaking |-> << >>, differences |-> << >>]

InitRun ==
    /\ pc = "load"
    /\ diff_data = EmptyDiff
    /\ legacy_ops = {}
    /\ affected_ops = {}
    /\ pending = {}
    /\ new_spec = NoSpec
    /\ refs_to_scan_queue = {}
    /\ scanned_refs = {}
    /\ decisions = {}
    /\ copy_log = << >>

Init ==
    /\ diff_file \in GovDiffs
    /\ baseline_spec \in GovBaselines
    /\ dest_spec \in GovDests
    /\ source_spec \in GovSources(dest_spec)
    /\ InitRun

\* ------------------------------------------------------------------------
\* main, lines 551-568: load the diff report, the baseline and the two specs
\* ------------------------------------------------------------------------
ParseDiff(f) ==
    IF f.kind = "json" THEN [breaking |-> f.breaking, differences |-> f.differences]
    ELSE EmptyDiff

LoadInputs ==
    /\ pc = "load"
    /\ dest_spec # EmptyDoc
    /\ diff_data' = ParseDiff(diff_file)
    /\ legacy_ops' = load_baseline_operations(baseline_spec)
    /\ pc' = "build"
    /\ UNCHANGED << inputs, affected_ops, pending, new_spec, refs_to_scan_queue,
                    scanned_refs, decisions, copy_log >>

\* main, lines 566-568: no head specification, exit code 1
LoadAbort ==
    /\ pc = "load"
    /\ dest_spec = EmptyDoc
    /\ diff_data' = ParseDiff(diff_file)
    /\ legacy_ops' = load_baseline_operations(baseline_spec)
    /\ pc' = "exit1"
    /\ UNCHANGED << inputs, affected_ops, pending, new_spec, refs_to_scan_queue,
                    scanned_refs, decisions, copy_log >>

\* ------------------------------------------------------------------------
\* build_new_spec
\* ------------------------------------------------------------------------
\* lines 418-449: the affected set, diff report first, deep compare second
AffectedOps(diff, source, dest) ==
    detect_manual_changes(source, dest, DiffKeys(FlattenDiff(diff)))

BuildAffected ==
    /\ pc = "build"
    /\ new_spec' = NoSpec
    /\ affected_ops' = AffectedOps(diff_data, source_spec, dest_spec)
    /\ pending' = affected_ops'
    /\ pc' = "filter"
    /\ UNCHANGED << inputs, diff_data, legacy_ops, refs_to_scan_queue,
                    scanned_refs, decisions, copy_log >>

IsPathOnly(key) == StartsWith(key, <<"PATH_ONLY", "@">>)

Handled(key, decision) ==
    /\ pending' = pending \ {key}
    /\ decisions' = decisions \cup { <<key, decision>> }
    /\ UNCHANGED << inputs, pc, diff_data, legacy_ops, affected_ops,
                    refs_to_scan_queue, scanned_refs, copy_log >>

\* lines 452-456
IgnoreLegacyPath(key) ==
    /\ pc = "filter" /\ key \in pending
    /\ IsPathOnly(key)
    /\ IsLegacyPath(legacy_ops, PathOnlyOf(key))
    /\ new_spec' = new_spec
    /\ Handled(key, "ignore")

\* lines 457-460
IncludePath(key) ==
    /\ pc = "filter" /\ key \in pending
    /\ IsPathOnly(key)
    /\ ~ IsLegacyPath(legacy_ops, PathOnlyOf(key))
    /\ new_spec' = copy_path_from_dest(new_spec, dest_spec, PathOnlyOf(key))
    /\ Handled(key, "include")

\* lines 461-463
IgnoreLegacyOp(key) ==
    /\ pc = "filter" /\ key \in pending
    /\ ~ IsPathOnly(key)
    /\ key \in legacy_ops
    /\ new_spec' = new_spec
    /\ Handled(key, "ignore")

\* lines 464-466
IncludeOp(key) ==
    /\ pc = "filter" /\ key \in pending
    /\ ~ IsPathOnly(key)
    /\ key \notin legacy_ops
    /\ new_spec' = copy_operation_from_dest(new_spec, dest_spec, key)
    /\ Handled(key, "include")

\* lines 451-466: the body of the for loop, applied to the output document
FilterKey(ns, legacy, dest, key) ==
    IF IsPathOnly(key)
    THEN IF IsLegacyPath(legacy, PathOnlyOf(key)) THEN ns
         ELSE copy_path_from_dest(ns, dest, PathOnlyOf(key))
    ELSE IF key \in legacy THEN ns
         ELSE copy_operation_from_dest(ns, dest, key)

\* ------------------------------------------------------------------------
\* build_required_components (base_spec is the head specification)
\* ------------------------------------------------------------------------
\* lines 478-480: the base has no "components", nothing to resolve
NoBaseComponents ==
    /\ pc = "filter" /\ pending = {}
    /\ ~ dest_spec.hasComponents
    /\ new_spec' = [new_spec EXCEPT !.has_components = TRUE,
                                    !.components = EmptyMap,
                                    !.components_order = << >>]
    /\ pc' = "save"
    /\ UNCHANGED << inputs, diff_data, legacy_ops, affected_ops, pending,
                    refs_to_scan_queue, scanned_refs, decisions, copy_log >>

\* lines 482-487: seed the queue with every reference under the retained paths
StartResolve ==
    /\ pc = "filter" /\ pending = {}
    /\ dest_spec.hasComponents
    /\ new_spec' = [new_spec EXCEPT !.has_components = TRUE]
    /\ refs_to_scan_queue' = find_all_refs_paths(new_spec.paths)
    /\ scanned_refs' = {}
    /\ pc' = "resolve"
    /\ UNCHANGED << inputs, diff_data, legacy_ops, affected_ops, pending,
                    decisions, copy_log >>

\* lines 491-507: the popped reference is one the loop passes over
SkipsRef(ref_str, scanned, base_spec) ==
    \/ ref_str \in scanned
    \/ ~ InBase(base_spec, ParseRef(ref_str))

\* lines 490-507: pop a reference that is skipped
ScanSkip(ref_str) ==
    /\ pc = "resolve" /\ ref_str \in refs_to_scan_queue
    /\ SkipsRef(ref_str, scanned_refs, dest_spec)
    /\ refs_to_scan_queue' = refs_to_scan_queue \ {ref_str}
    /\ scanned_refs' = scanned_refs \cup {ref_str}
    /\ UNCHANGED << inputs, pc, diff_data, legacy_ops, affected_ops, pending,
                    new_spec, decisions, copy_log >>

\* line 512 without its membership test
IsCopied_never(ns, cn) == FALSE

\* line 512: the component named by the reference is in the output already
IsCopied(ns, cn) ==
    cn[1] \in DOMAIN ns.components /\ cn[2] \in DOMAIN ns.components[cn[1]]

\* the whole category copied instead of the one component
copy_component_category(ns, base_spec, cn) ==
    [ns EXCEPT !.components = Put(ns.components, cn[1], base_spec.components[cn[1]]),
               !.components_order = Append(@, cn)]

\* lines 509-514: the component copied into the output document
copy_component(ns, base_spec, cn) ==
    LET cat0 == IF cn[1] \in DOMAIN ns.components THEN ns.components[cn[1]] ELSE EmptyMap
    IN [ns EXCEPT !.components =
                     Put(ns.components, cn[1],
                         Put(cat0, cn[2], deepcopy(base_spec.components[cn[1]][cn[2]]))),
                  !.components_order =
                     IF IsCopied(ns, cn) THEN @ ELSE Append(@, cn)]

\* lines 490-515: pop a new reference to a component of the base
ScanRef(ref_str) ==
    /\ pc = "resolve" /\ ref_str \in refs_to_scan_queue
    /\ ~ SkipsRef(ref_str, scanned_refs, dest_spec)
    /\ scanned_refs' = scanned_refs \cup {ref_str}
    /\ LET cn == ParseRef(ref_str) IN
       IF ~ IsCopied(new_spec, cn)
       THEN /\ new_spec' = copy_component(new_spec, dest_spec, cn)
            /\ refs_to_scan_queue' =
                 find_all_refs(dest_spec.components[cn[1]][cn[2]],
                               refs_to_scan_queue \ {ref_str})
            /\ copy_log' = Append(copy_log, cn)
       ELSE /\ new_spec' = new_spec
            /\ refs_to_scan_queue' = refs_to_scan_queue \ {ref_str}
            /\ copy_log' = copy_log
    /\ UNCHANGED << inputs, pc, diff_data, legacy_ops, affected_ops, pending,
                    decisions >>

\* main, lines 579-583: the queue is empty, the output is written, exit code 0
Save ==
    /\ \/ pc = "save"
       \/ pc = "resolve" /\ refs_to_scan_queue = {}
    /\ pc' = "done"
    /\ UNCHANGED << inputs, diff_data, legacy_ops, affected_ops, pending, new_spec,
                    refs_to_scan_queue, scanned_refs, decisions, copy_log >>

Next ==
    \/ LoadInputs
    \/ LoadAbort
    \/ BuildAffected
    \/ \E key \in pending : IgnoreLegacyPath(key)
    \/ \E key \in pending : IncludePath(key)
    \/ \E key \in pending : IgnoreLegacyOp(key)
    \/ \E key \in pending : IncludeOp(key)
    \/ NoBaseComponents
    \/ StartResolve
    \/ \E ref_str \in refs_to_scan_queue : ScanSkip(ref_str)
    \/ \E ref_str \in refs_to_scan_queue : ScanRef(ref_str)
    \/ Save

Spec == Init /\ [][Next]_vars

\* the runs that exercise reference resolution
InitRefs ==
    /\ diff_file \in RefsDiffs
    /\ baseline_spec \in RefsBaselines
    /\ dest_spec \in RefsDests
    /\ source_spec = EmptyDoc
    /\ InitRun

SpecRefs == InitRefs /\ [][Next]_vars

\* the runs over which termination is checked: every components dictionary
\* and every set of root references, one entry in the head's paths
InitLive ==
    /\ diff_file \in RefsDiffs
    /\ baseline_spec \in RefsBaselines
    /\ dest_spec \in { d \in RefsDests :
                         \A p \in DOMAIN d.paths : Cardinality(DOMAIN d.paths[p]) <= 1 }
    /\ source_spec = EmptyDoc
    /\ InitRun

\* the script is one sequential process: a run that can take a step takes it
FairRefs == InitLive /\ [][Next]_vars /\ WF_vars(Next)

\* the runs that exercise the diff report: items with a location on both
\* sides, on one side, on neither, and with locations that name no operation;
\* the source is either missing or identical to the head
InitReport ==
    /\ diff_file \in ReportDiffs
    /\ baseline_spec \in ReportBaselines
    /\ dest_spec \in ReportDests
    /\ source_spec \in { EmptyDoc, dest_spec }
    /\ InitRun

SpecReport == InitReport /\ [][Next]_vars

\* the runs that exercise the processing order: a report flagging a path, a
\* removed operation of that path and a second path, over the governance
\* baselines, heads and sources
InitOrder ==
    /\ diff_file \in OrderDiffs
    /\ baseline_spec \in GovBaselines
    /\ dest_spec \in GovDests
    /\ source_spec \in GovSources(dest_spec)
    /\ InitRun

SpecOrder == InitOrder /\ [][Next]_vars

\* ------------------------------------------------------------------------
\* Vocabulary of the properties
\* ------------------------------------------------------------------------
Methods == {M_get, M_post}

\* the Output Document holds an entry at paths[p][k]
Retains(p, k) ==
    p \in DOMAIN new_spec.paths /\ k \in DOMAIN new_spec.paths[p]

\* a specification document defines an entry at paths[p][k]
Defines(doc, p, k) ==
    p \in DOMAIN doc.paths /\ k \in DOMAIN doc.paths[p]

\* the operations (path, method) of the baseline document
BaselineOps ==
    { pm \in PathStrings \X Methods : Defines(baseline_spec, pm[1], pm[2]) }

\* character order of the atoms that occur in operation keys
AtomRank(a) ==
    CASE a = "/u" -> 1
      [] a = "@" -> 2
      [] a = "GET" -> 3
      [] a = "PARAMETERS" -> 4
      [] a = "PATH_ONLY" -> 5
      [] a = "POST" -> 6
      [] a = "me" -> 7
      [] OTHER -> 8

\* s sorts strictly before t
RECURSIVE LexLess(_, _)
LexLess(s, t) ==
    IF t = << >> THEN FALSE
    ELSE IF s = << >> THEN TRUE
    ELSE IF s[1] = t[1] THEN LexLess(Tail(s), Tail(t))
    ELSE AtomRank(s[1]) < AtomRank(t[1])

\* ------------------------------------------------------------------------
\* C1  Legacy exclusion
\* ------------------------------------------------------------------------
\* C1: no operation (path, method) of the baseline document is ever present
\* in the Output Document at paths[path][method], whatever the diff report,
\* the source and the destination specifications are.
C1_LegacyExclusion ==
    \A pm \in BaselineOps : ~ Retains(pm[1], pm[2])

\* a finished run in which a legacy operation of the head spec is flagged, a
\* PATH_ONLY item on its path is flagged too, and another operation is retained
C1_Witness ==
    /\ pc = "done"
    /\ new_spec.paths # EmptyMap
    /\ \E pm \in BaselineOps :
         /\ Defines(dest_spec, pm[1], pm[2])
         /\ OpKey(pm[2], pm[1]) \in affected_ops
         /\ PathOnlyKey(pm[1]) \in affected_ops

\* ------------------------------------------------------------------------
\* C2  New-operation inclusion
\* ------------------------------------------------------------------------
NewKeys ==
    { pm \in PathStrings \X Methods :
        OpKey(pm[2], pm[1]) \in affected_ops \ legacy_ops }

\* C2 as stated: at the end of the run every affected, non-legacy key
\* METHOD@path is in the Output Document at paths[path][method] as a copy of
\* the destination's operation at that address.
C2_Original ==
    pc = "done" =>
      \A pm \in NewKeys :
        /\ Retains(pm[1], pm[2])
        /\ Defines(dest_spec, pm[1], pm[2])
        /\ new_spec.paths[pm[1]][pm[2]] = dest_spec.paths[pm[1]][pm[2]]

\* C2 amended: at the end of the run, for every affected, non-legacy key
\* METHOD@path, the path is in the Output Document; when the destination
\* defines the operation the output holds a full copy of it at
\* paths[path][method], and when it does not (a removed operation, a stale
\* location) the output holds no operation there.
C2_NewOperationInclusion ==
    pc = "done" =>
      \A pm \in NewKeys :
        /\ pm[1] \in DOMAIN new_spec.paths
        /\ IF Defines(dest_spec, pm[1], pm[2])
           THEN /\ Retains(pm[1], pm[2])
                /\ new_spec.paths[pm[1]][pm[2]] = dest_spec.paths[pm[1]][pm[2]]
           ELSE ~ Retains(pm[1], pm[2])

\* a finished run with a new key the destination defines and one it does not
C2_Witness ==
    /\ pc = "done"
    /\ \E pm \in NewKeys : Defines(dest_spec, pm[1], pm[2]) /\ Retains(pm[1], pm[2])
    /\ \E pm \in NewKeys : ~ Defines(dest_spec, pm[1], pm[2])

\* ------------------------------------------------------------------------
\* C6  Response invariant
\* ------------------------------------------------------------------------
\* C6: at the end of the run every operation retained in the Output Document
\* has a non-empty responses field.
C6_ResponseInvariant ==
    pc = "done" =>
      \A pm \in PathStrings \X Methods :
        Retains(pm[1], pm[2]) => new_spec.paths[pm[1]][pm[2]].responses

\* ------------------------------------------------------------------------
\* C7  Determinism
\* ------------------------------------------------------------------------
\* C7: the for loop takes the affected keys in lexicographically sorted
\* order (every key it handles sorts before every key still pending), so that
\* the order of the entries of the output is fixed by the inputs.
C7_SortedProcessing ==
    [][ \A key \in pending \ pending' :
          \A other \in pending' : LexLess(key, other) ]_vars

\* ------------------------------------------------------------------------
\* C8  Union recall
\* ------------------------------------------------------------------------
\* the sub-trees differ in some field
DiffersInAField(a, b) ==
    a.desc # b.desc \/ a.responses # b.responses \/ a.refs # b.refs

\* the operations of the head that are new or changed against the source
ChangedOps ==
    { pm \in PathStrings \X Methods :
        /\ Defines(dest_spec, pm[1], pm[2])
        /\ \/ ~ Defines(source_spec, pm[1], pm[2])
           \/ DiffersInAField(dest_spec.paths[pm[1]][pm[2]],
                              source_spec.paths[pm[1]][pm[2]]) }

\* C8: once the affected set is built it holds the key of every operation of
\* the destination that the source lacks or that differs from the source's
\* in some field, and at the end of the run each such operation that is not
\* legacy is in the Output Document.
C8_UnionRecall ==
    /\ pc \in {"filter", "resolve", "save", "done"} =>
         \A pm \in ChangedOps : OpKey(pm[2], pm[1]) \in affected_ops
    /\ pc = "done" =>
         \A pm \in ChangedOps :
           OpKey(pm[2], pm[1]) \notin legacy_ops =>
             /\ Retains(pm[1], pm[2])
             /\ new_spec.paths[pm[1]][pm[2]] = dest_spec.paths[pm[1]][pm[2]]

\* a finished run without any diff item in which an operation changed only in
\* its description, and one the source lacks, are both retained
C8_Witness ==
    /\ pc = "done"
    /\ FlattenDiff(diff_data) = << >>
    /\ \E pm \in ChangedOps :
         /\ Defines(source_spec, pm[1], pm[2])
         /\ dest_spec.paths[pm[1]][pm[2]].desc # source_spec.paths[pm[1]][pm[2]].desc
         /\ Retains(pm[1], pm[2])
    /\ \E pm \in ChangedOps :
         ~ Defines(source_spec, pm[1], pm[2]) /\ Retains(pm[1], pm[2])

\* ------------------------------------------------------------------------
\* C9  "no changes" sentinel
\* ------------------------------------------------------------------------
\* C9: a run whose diff report is the plain-text sentinel ends with an empty
\* Output Document: paths is {} and components is {schemas: {}}.
C9_SentinelEmptyOutput ==
    (pc = "done" /\ diff_file.kind = "sentinel") =>
      /\ new_spec.paths = EmptyMap
      /\ new_spec.components = Schemas(EmptyMap)

\* ------------------------------------------------------------------------
\* C10  Governance table
\* ------------------------------------------------------------------------
Verdict(ignored) == IF ignored THEN "ignore" ELSE "include"

\* C10: METHOD@path is ignored iff that key is in the Legacy Set;
\* PATH_ONLY@path is ignored iff the Legacy Set has a key X@path with exactly
\* that path, and otherwise the destination's path item is the output's.
C10_GovernanceTable ==
    \A p \in PathStrings :
      /\ \A m \in Methods : \A d \in {"ignore", "include"} :
           << OpKey(m, p), d >> \in decisions
             => d = Verdict(OpKey(m, p) \in legacy_ops)
      /\ \A d \in {"ignore", "include"} :
           << PathOnlyKey(p), d >> \in decisions
             => d = Verdict(\E m \in OpMethods : OpKey(m, p) \in legacy_ops)
      /\ ( /\ pc = "done"
           /\ << PathOnlyKey(p), "include" >> \in decisions
           /\ p \in DOMAIN dest_spec.paths )
           => /\ p \in DOMAIN new_spec.paths
              /\ new_spec.paths[p] = dest_spec.paths[p]

\* ------------------------------------------------------------------------
\* Reference reachability, for C3-C5
\* ------------------------------------------------------------------------
\* the reference string names the component: #/components/{category}/{name},
\* or a pointer below it
Names(ref_str, cn) ==
    LET whole == <<"#", "/", "components", "/">> \o cn[1] \o <<"/">> \o cn[2]
    IN ref_str = whole \/ StartsWith(ref_str, whole \o <<"/">>)

\* the components of the base that some reference of refs names
Named(refs, base) ==
    { cn \in ComponentsOf(base) : \E r \in refs : Names(r, cn) }

\* what S reaches through the references inside the base's definitions
RECURSIVE Closure(_, _)
Closure(S, base) ==
    LET more == S \cup Named(UNION { base.components[cn[1]][cn[2]].refs : cn \in S }, base)
    IN IF more = S THEN S ELSE Closure(more, base)

\* the "$ref" strings under the retained paths, in the entries with key in keys
RefsUnder(keys) ==
    UNION { new_spec.paths[pk[1]][pk[2]].refs : pk \in
              { pk \in UNION { {p} \X (DOMAIN new_spec.paths[p]) :
                                 p \in DOMAIN new_spec.paths } : pk[2] \in keys } }

AllKeys == OpMethods \cup {K_parameters}

Copied == ComponentsOf(new_spec)

\* no element occurs twice
NoDuplicates(seq) ==
    \A i, j \in 1..Len(seq) : (seq[i] = seq[j]) => (i = j)

\* ------------------------------------------------------------------------
\* C3  Closure completeness
\* ------------------------------------------------------------------------
\* C3: when the run is done, every component of the base specification that
\* is named by a reference under the retained paths, or by a reference inside
\* a component so reached, is in the Output Document's components under the
\* same category and name, with the base's definition.
C3_ClosureCompleteness ==
    pc = "done" =>
      \A cn \in Closure(Named(RefsUnder(AllKeys), dest_spec), dest_spec) :
        /\ cn \in Copied
        /\ new_spec.components[cn[1]][cn[2]] = dest_spec.components[cn[1]][cn[2]]

\* a finished run that copied a component only another component refers to,
\* past a reference that is dangling in the base
C3_Witness ==
    /\ pc = "done"
    /\ \E cn \in Copied : cn \notin Named(RefsUnder(AllKeys), dest_spec)
    /\ \E r \in scanned_refs :
         r \in {RefDangling, RefB} /\ Named({r}, dest_spec) = {}

\* ------------------------------------------------------------------------
\* C4  Closure minimality
\* ------------------------------------------------------------------------
\* C4 as stated: when the run is done, every component of the output is
\* reachable through references from a retained operation.
C4_Original ==
    pc = "done" =>
      Copied \subseteq Closure(Named(RefsUnder(OpMethods), dest_spec), dest_spec)

\* C4 amended: when the run is done, every component of the output is
\* reachable through references from the retained paths, that is from a
\* retained operation or from a path-level field (such as "parameters") of a
\* retained path item; no other component of the base is copied.
C4_ClosureMinimality ==
    pc = "done" =>
      Copied \subseteq Closure(Named(RefsUnder(AllKeys), dest_spec), dest_spec)

\* a finished run that copied a component reached only from path-level
\* parameters and left a component of the base out
C4_Witness ==
    /\ pc = "done"
    /\ Copied # {}
    /\ ComponentsOf(dest_spec) \ Copied # {}
    /\ Copied \cap Closure(Named(RefsUnder(OpMethods), dest_spec), dest_spec) = {}

\* ------------------------------------------------------------------------
\* C5  Termination, each component copied once
\* ------------------------------------------------------------------------
\* C5: reference resolution, once started, ends with an empty queue and the
\* run done, and no component is ever copied (and so scanned) twice.
C5_TerminatesCopyOnce ==
    /\ (pc = "resolve") ~> (pc = "done" /\ refs_to_scan_queue = {})
    /\ [] NoDuplicates(copy_log)

\* a finished run over the mutual pair A -> B -> A: both copied, each once
C5_Witness ==
    /\ pc = "done"
    /\ refs_to_scan_queue = {}
    /\ Len(copy_log) = 2
    /\ RefB \in dest_spec.components[<<"schemas">>][N_A].refs
    /\ RefA \in dest_spec.components[<<"schemas">>][N_B].refs

\* ------------------------------------------------------------------------
\* C11  Location of a diff item
\* ------------------------------------------------------------------------
\* the items of the diff report the run has parsed
ReportedItems == FlattenDiff(diff_data)

\* the keys the deep comparison adds
DeepKeys == { OpKey(pm[2], pm[1]) : pm \in ChangedOps }

\* the location by the rule as stated: the destination detail's when a
\* destination detail is present, the source detail's only when none is
StatedLocation(it) ==
    IF it.dst # << >> THEN it.dst[1]
    ELSE IF it.src # << >> THEN it.src[1]
    ELSE << >>

\* the location by the amended rule: the destination detail's when it has
\* one, else the source detail's
FallbackLocation(it) ==
    IF it.dst # << >> /\ it.dst[1] # << >> THEN it.dst[1]
    ELSE IF it.src # << >> THEN it.src[1]
    ELSE << >>

\* C11 as stated: once the affected set is built, every diff item has
\* contributed the key of its destination detail's location when it has a
\* destination detail, and of its source detail's location only when it has
\* none; an item whose location yields no key has contributed nothing, and
\* the loop has gone on to the items after it.
C11_Original ==
    pc \in {"filter", "resolve", "save", "done"} =>
      /\ \A i \in DOMAIN ReportedItems :
           LET key == get_key_from_loc(StatedLocation(ReportedItems[i]))
           IN key # NoKey => key \in affected_ops
      /\ \A key \in affected_ops \ DeepKeys :
           \E i \in DOMAIN ReportedItems :
             key = get_key_from_loc(StatedLocation(ReportedItems[i]))

\* C11 amended: once the affected set is built, every diff item has
\* contributed the key of its first destination detail's location when that
\* detail has a location, and otherwise (no destination detail, or one
\* without a location) the key of its first source detail's location; an
\* item whose location yields no key has contributed nothing, and the loop
\* has gone on to the items after it.
C11_ItemLocation ==
    pc \in {"filter", "resolve", "save", "done"} =>
      /\ \A i \in DOMAIN ReportedItems :
           LET key == get_key_from_loc(FallbackLocation(ReportedItems[i]))
           IN key # NoKey => key \in affected_ops
      /\ \A key \in affected_ops \ DeepKeys :
           \E i \in DOMAIN ReportedItems :
             key = get_key_from_loc(FallbackLocation(ReportedItems[i]))

\* a finished run without deep-comparison keys whose report has an item that
\* yields no key followed by an item with a location on both sides: the key of
\* the destination side is affected, the key of the source side is not
C11_Witness ==
    /\ pc = "done"
    /\ DeepKeys = {}
    /\ \E i, j \in DOMAIN ReportedItems :
         /\ i < j
         /\ get_key_from_loc(FallbackLocation(ReportedItems[i])) = NoKey
         /\ ReportedItems[j].dst # << >> /\ ReportedItems[j].src # << >>
         /\ get_key_from_loc(ReportedItems[j].dst[1]) \in affected_ops
         /\ get_key_from_loc(ReportedItems[j].src[1]) \notin affected_ops \cup {NoKey}

\* ------------------------------------------------------------------------
\* C12  Processing order of the affected keys
\* ------------------------------------------------------------------------
\* the output document after the loop has taken the keys in sorted order
RECURSIVE FilterInOrder(_, _)
FilterInOrder(ns, keys) ==
    IF keys = {} THEN ns
    ELSE LET first == CHOOSE k \in keys : \A o \in keys \ {k} : LexLess(k, o)
         IN FilterInOrder(FilterKey(ns, legacy_ops, dest_spec, first), keys \ {first})

\* the keys the loop included
Included == { d[1] : d \in { e \in decisions : e[2] = "include" } }

\* C12: whatever order the loop took the affected keys in, once it has
\* handled them all the paths of the Output Document (path to method to
\* operation, entry order aside) are the paths the loop builds when it takes
\* the same keys in sorted order.
C12_OrderIndependentPaths ==
    (pc \in {"filter", "resolve", "save", "done"} /\ pending = {}) =>
      new_spec.paths = FilterInOrder(NoSpec, affected_ops).paths

\* a finished run that included PATH_ONLY@p and METHOD@p for one path p of
\* the head, included a key whose operation the head lacks, and wrote its
\* paths in another entry order than the sorted run does
C12_Witness ==
    /\ pc = "done"
    /\ \E p \in DOMAIN dest_spec.paths : \E m \in Methods :
         /\ PathOnlyKey(p) \in Included
         /\ OpKey(m, p) \in Included
         /\ Defines(dest_spec, p, m)
    /\ \E pm \in PathStrings \X Methods :
         OpKey(pm[2], pm[1]) \in Included /\ ~ Defines(dest_spec, pm[1], pm[2])
    /\ new_spec.paths_order # FilterInOrder(NoSpec, affected_ops).paths_order

====
